---- MODULE Spec2Model ----
(***************************************************************************)
(* Update-polling and notification-scheduling core of the link tracker:    *)
(* Scheduler.start (services/scheduler.py), BatchLinksService              *)
(* (services/batch_links_service.py), the LinkRepo operations it calls     *)
(* (repos/orm_link_repo.py, repos/sql_link_repo.py), URLTypeDefiner,       *)
(* ClientFactory and the source clients' request validation.               *)
(***************************************************************************)
EXTENDS Integers, Sequences, FiniteSets, TLC

(* ------------------------------ bounds --------------------------------- *)

\* Rows the link_date table may hold in the small configuration.
NLinks == 3

\* DB_PAGESIZE of the small configuration (50 by default in db_settings.py).
PageSize == 2

\* Rows of the link_date table and DB_PAGESIZE in the wide configuration (one
\* long page).
WideLinks == 8

\* Infrastructure faults (database errors, add_job errors) injected per run.
MaxFaults == 1

(* ------------------------- program constants --------------------------- *)

\* asyncio.sleep(3600) of the idle branch.
IdleSleep == 3600

\* len(links) // 4 of the chunk size.
Quarter == 4

\* misfire_grace_time=300 of add_job.
MisfireGrace == 300

\* timedelta(days=1), in minutes.
MinutesPerDay == 1440

\* ThreadPoolExecutor(max_workers=4)
MaxWorkers == 4

(* ------------------------------ values --------------------------------- *)

None == "None"

\* Activity markers are opaque strings compared for equality only.
Markers == {"m0", "m1"}

Authors == {"alice", "bob"}

Chats == {1, 2}

\* A URL is the sequence of its "/"-separated parts.
UrlGitHub == <<"https:", "github.com", "owner", "repo", "commits">>

UrlStackOverflow == <<"https:", "stackoverflow.com", "questions", "42">>

UrlGitHubNoCommits == <<"https:", "github.com", "owner", "repo">>

UrlExample == <<"https:", "example.com", "page">>

\* A filter is the sequence of the parts f.split(":", 1) gives.
FilterIgnoreBob == <<"ignore", "bob">>

FilterAuthor == <<"author", "alice">>

FilterNoColon == <<"nocolon">>

Range(s) == {s[i] : i \in DOMAIN s}

Max(a, b) == IF a >= b THEN a ELSE b

Min(a, b) == IF a <= b THEN a ELSE b

(* --------------------- URLTypeDefiner, ClientFactory ------------------- *)

\* `"github.com" in url`
Contains(url, part) == part \in Range(url)

\* URLTypeDefiner.define: the url type, or the exception it raises.
define(url) ==
    IF Contains(url, "github.com") THEN "github.com"
    ELSE IF Contains(url, "stackoverflow.com") THEN "stackoverflow.com"
    ELSE "UrlIsNotSupportedException"

\* ClientFactory.create_client: the client, or the exception it raises.
create_client(client_type) ==
    IF client_type = "github.com" THEN "GitHubClient"
    ELSE IF client_type = "stackoverflow.com" THEN "StackOverflowClient"
    ELSE "UrlIsNotSupportedException"

\* re.match(self._pattern, url) of the two clients.
PatternMatch(client, url) ==
    IF client = "GitHubClient"
    THEN /\ Len(url) \in {5, 6}
         /\ url[1] = "https:" /\ url[2] = "github.com" /\ url[5] = "commits"
    ELSE /\ Len(url) >= 4
         /\ url[1] = "https:" /\ url[2] = "stackoverflow.com"
         /\ url[3] = "questions"

Failure(name) == [kind |-> name, date |-> None, user |-> None]

Info(d, u) == [kind |-> "ok", date |-> d, user |-> u]

\* What the upstream API may answer once the request is sent.
Upstream ==
    {Failure("NetworkError"), Failure("NotSuccessfulResponseException"),
     Failure("ResourceIsNotFoundException")}
        \cup {Info(d, u) : d \in Markers, u \in Authors}

\* client.get_info_by_url_with_filters: every result the call may have.
get_info_by_url_with_filters(client, url, filters) ==
    IF ~PatternMatch(client, url)
    THEN {Failure("UrlIsNotSupportedException")}
    ELSE IF \E f \in Range(filters) : Len(f) < 2
    THEN {Failure("NotSupportedTypeOfFilter")}
    ELSE Upstream

(* ------------------------------- state --------------------------------- *)

VARIABLES
    table,          \* link_date rows in the order the database returns them
    users,          \* users rows: chat id -> time_push_up (None when unset)
    page,           \* Scheduler._page
    page_size,      \* Scheduler._page_size
    pc,             \* where Scheduler.start stands
    sleep_left,     \* seconds left of the idle asyncio.sleep
    cron_running,   \* whether _cron_scheduler was started
    links,          \* the page batch_links is working on
    ci,             \* index of the chunk the outer loop is in
    li,             \* index in that chunk of the next link to process
    links_with_updates, \* the current chunk's immediate batch
    to_send,        \* the immediate batches of the finished chunks
    jobs,           \* job store of _cron_scheduler
    log,            \* what this batch_links call did, one record per link
    cron,           \* per link id scheduled so far: the pair enqueued last,
                    \* whether it replaced a pending job, the runs since
    asked,          \* the page argument of the last get_all call
    error,          \* the exception that ended Scheduler.start, or None
    faults,         \* infrastructure faults injected so far
    now,            \* the instant, in minutes of Moscow wall-clock time
    zone_shift,     \* the process's local zone minus Europe/Moscow, in minutes
    pool_queue,     \* ThreadPoolExecutor work queue: indices into to_send
    worker,         \* per pool thread: the to_send index it is sending, or 0
    attempts,       \* per to_send index: the finished send_update_request calls
    sweep,          \* link ids processed since the loop last read page 1
    next_id,        \* link_date.link_id autoincrement: the next value
    result,         \* the last LinkRepo call: operation, arguments, outcome
    adding          \* LinkRepo.add calls between their check and their insert

\* The clock of _add_cron_task.
clock == <<now, zone_shift>>

\* The worker pool of batch_links.
pool == <<pool_queue, worker, attempts>>

\* What only the LinkRepo calls of the API handlers touch.
repo == <<next_id, result, adding>>

vars == <<table, users, page, page_size, pc, sleep_left, cron_running, links,
          ci, li, links_with_updates, to_send, jobs, log, cron, asked, error,
          faults, clock, pool, sweep, repo>>

(* ------------------------------ LinkRepo ------------------------------- *)

\* LinkDTO of a link_date row (tags play no part in polling).
LinkDTO(row) ==
    [link_id |-> row.link_id, tg_id |-> row.tg_id, link |-> row.link,
     date |-> row.date, filters |-> row.filters]

\* get_all: LIMIT page_size OFFSET (page - 1) * page_size over the table.
get_all(tbl, p, size) ==
    LET offset == (p - 1) * size
        rows == SubSeq(tbl, offset + 1, Min(Len(tbl), offset + size))
    IN  [i \in 1..Len(rows) |-> LinkDTO(rows[i])]

\* get_time_push_up: the chat's time, None when unset, or the exception.
get_time_push_up(us, tg_id) ==
    IF tg_id \in DOMAIN us THEN us[tg_id] ELSE "ChatIsNotRegisteredException"

\* change_date finds the row by link_id; it raises when there is none.
HasRow(tbl, link_id) == \E i \in DOMAIN tbl : tbl[i].link_id = link_id

\* Mutant of change_date: the row keeps its date.
change_date_Noop(tbl, link_id, date) == tbl

\* change_date: the table with the row's date replaced.
change_date(tbl, link_id, date) ==
    [i \in DOMAIN tbl |->
        IF tbl[i].link_id = link_id THEN [tbl[i] EXCEPT !.date = date]
        ELSE tbl[i]]

\* delete: the table without the link's row.
delete(tbl, link_id) ==
    LET keep == {i \in DOMAIN tbl : tbl[i].link_id # link_id}
        pos(k) == CHOOSE i \in keep : Cardinality({j \in keep : j < i}) = k - 1
    IN  [k \in 1..Cardinality(keep) |-> tbl[pos(k)]]

\* delete_by_tg_id on the users table.
delete_by_tg_id(us, tg_id) == [c \in DOMAIN us \ {tg_id} |-> us[c]]

\* ForeignKey("users.id", ondelete="CASCADE"): the chat's links go with it.
Cascade(tbl, tg_id) ==
    LET keep == {i \in DOMAIN tbl : tbl[i].tg_id # tg_id}
        pos(k) == CHOOSE i \in keep : Cardinality({j \in keep : j < i}) = k - 1
    IN  [k \in 1..Cardinality(keep) |-> tbl[pos(k)]]

(* ------------------- LinkRepo as the API handlers call it -------------- *)

\* The most link_date rows a run of the repository configuration inserts.
MaxRows == 2

\* The URLs the handlers are called with.
Urls == {UrlGitHub}

Tags == {"work"}

\* time_str of change_time_push_up: reset, a valid "HH:MM", an invalid one.
TimeStrings == {None, "18:00", "25:00"}

\* The database as one value.
Store == [table |-> table, users |-> users, next_id |-> next_id]

\* The call raised: the transaction is rolled back.
Raise(st, name) == [raised |-> name, returned |-> <<>>, store |-> st]

\* The call returned: the transaction is committed.
Return(st, value) == [raised |-> None, returned |-> value, store |-> st]

\* What a call gave its caller.
Outcome(o) == [raised |-> o.raised, returned |-> o.returned]

\* The record of the last call before any call was made.
NoCall ==
    [op |-> "none", args |-> <<>>,
     orm |-> [raised |-> None, returned |-> <<>>],
     sql |-> [raised |-> None, returned |-> <<>>], same |-> TRUE]

\* Rows of WHERE tg_id = :tg_id AND link = :link.
LinksOf(tbl, tg_id, link) ==
    {i \in DOMAIN tbl : tbl[i].tg_id = tg_id /\ tbl[i].link = link}

\* The table without the rows at the given positions.
Without(tbl, gone) ==
    LET keep == DOMAIN tbl \ gone
        pos(k) == CHOOSE i \in keep : Cardinality({j \in keep : j < i}) = k - 1
    IN  [k \in 1..Cardinality(keep) |-> tbl[pos(k)]]

\* Mutant of Registered: the lookup finds no user.
Registered_NeverFound(us, tg_id) == FALSE

\* session.get(User, tg_id) / SELECT id FROM users WHERE id = :tg_id
Registered(us, tg_id) == tg_id \in DOMAIN us

\* datetime.strptime(time_str, "%H:%M").time()
ParseTime(time_str) ==
    IF time_str \in {"09:00", "18:00"} THEN time_str
    ELSE "UnsupportedTimeFormatException"

\* LinkResponse of list: id=link.link_id in both implementations.
ListPage(tbl, tg_id, p, size) ==
    LET mine == Without(tbl, {i \in DOMAIN tbl : tbl[i].tg_id # tg_id})
        offset == (p - 1) * size
        rows == SubSeq(mine, offset + 1, Min(Len(mine), offset + size))
    IN  [i \in 1..Len(rows) |->
            [id |-> rows[i].link_id, url |-> rows[i].link,
             filters |-> rows[i].filters, tags |-> rows[i].tags]]

(* OrmLinkRepo *)

OrmLinkRepo_register(st, tg_id) ==
    IF ~Registered(st.users, tg_id)
    THEN Return([st EXCEPT !.users = (tg_id :> None) @@ st.users], <<>>)
    ELSE Raise(st, "AlreadyRegisteredChatException")

\* session.delete(user): User.links is a relationship() without a delete
\* cascade, so the flush first sets tg_id of the chat's rows to NULL, which
\* the NOT NULL column rejects.
OrmLinkRepo_delete_by_tg_id(st, tg_id) ==
    IF Registered(st.users, tg_id)
    THEN IF \E i \in DOMAIN st.table : st.table[i].tg_id = tg_id
         THEN Raise(st, "IntegrityError")
         ELSE Return([st EXCEPT !.users = delete_by_tg_id(st.users, tg_id)],
                     <<>>)
    ELSE Raise(st, "ChatIsNotRegisteredException")

OrmLinkRepo_list(st, tg_id, p, size) ==
    IF ~Registered(st.users, tg_id)
    THEN Raise(st, "ChatIsNotRegisteredException")
    ELSE Return(st, <<ListPage(st.table, tg_id, p, size)>>)

\* add up to `if link.scalar(): raise`: the exception, or None.
OrmLinkRepo_add_check(st, resp) ==
    IF ~Registered(st.users, resp.id) THEN "ChatIsNotRegisteredException"
    ELSE IF LinksOf(st.table, resp.id, resp.url) # {}
    THEN "UrlIsAlreadyFollowed"
    ELSE None

\* add from `new_link = LinkDate(...)` to the commit; the foreign key of
\* tg_id is checked by the database.
OrmLinkRepo_add_insert(st, resp, date) ==
    IF ~Registered(st.users, resp.id) THEN Raise(st, "IntegrityError")
    ELSE Return([st EXCEPT
                    !.table = Append(st.table,
                        [link_id |-> st.next_id, tg_id |-> resp.id,
                         link |-> resp.url, date |-> date,
                         filters |-> resp.filters, tags |-> resp.tags]),
                    !.next_id = st.next_id + 1],
                <<>>)

OrmLinkRepo_delete(st, tg_chat_id, link) ==
    LET found == LinksOf(st.table, tg_chat_id, link)
    IN  IF ~Registered(st.users, tg_chat_id)
        THEN Raise(st, "ChatIsNotRegisteredException")
        ELSE IF Cardinality(found) > 1 THEN Raise(st, "MultipleResultsFound")
        ELSE IF found = {} THEN Raise(st, "LinkIsNotFoundException")
        ELSE LET link_obj == st.table[CHOOSE i \in found : TRUE]
             IN  Return([st EXCEPT !.table = delete(st.table, link_obj.link_id)],
                        <<[id |-> tg_chat_id, url |-> link_obj.link,
                           filters |-> link_obj.filters,
                           tags |-> link_obj.tags]>>)

OrmLinkRepo_get_all(st, p, size) == Return(st, <<get_all(st.table, p, size)>>)

OrmLinkRepo_delete_tag(st, tg_id, link, tag) ==
    LET found == LinksOf(st.table, tg_id, link)
    IN  IF ~Registered(st.users, tg_id)
        THEN Raise(st, "ChatIsNotRegisteredException")
        ELSE IF Cardinality(found) > 1 THEN Raise(st, "MultipleResultsFound")
        ELSE IF found = {} THEN Raise(st, "LinkIsNotFoundException")
        ELSE LET i == CHOOSE i \in found : TRUE
             IN  IF tag \notin st.table[i].tags
                 THEN Raise(st, "LinkWithTagIsNotFound")
                 ELSE Return([st EXCEPT !.table[i].tags = @ \ {tag}], <<>>)

OrmLinkRepo_add_tag(st, tg_id, link, tag) ==
    LET found == LinksOf(st.table, tg_id, link)
    IN  IF ~Registered(st.users, tg_id)
        THEN Raise(st, "ChatIsNotRegisteredException")
        ELSE IF Cardinality(found) > 1 THEN Raise(st, "MultipleResultsFound")
        ELSE IF found = {} THEN Raise(st, "LinkIsNotFoundException")
        ELSE LET i == CHOOSE i \in found : TRUE
             IN  IF tag \in st.table[i].tags
                 THEN Raise(st, "TagAlreadyExistsException")
                 ELSE Return([st EXCEPT !.table[i].tags = @ \cup {tag}], <<>>)

OrmLinkRepo_change_date(st, link_id, date) ==
    IF HasRow(st.table, link_id)
    THEN Return([st EXCEPT !.table = change_date(st.table, link_id, date)],
                <<>>)
    ELSE Raise(st, "LinkIsNotFoundException")

\* The time string is parsed before the chat is looked up.
OrmLinkRepo_change_time_push_up(st, tg_id, time_str) ==
    LET parsed == IF time_str = None THEN None ELSE ParseTime(time_str)
    IN  IF parsed = "UnsupportedTimeFormatException"
        THEN Raise(st, "UnsupportedTimeFormatException")
        ELSE IF ~Registered(st.users, tg_id)
        THEN Raise(st, "ChatIsNotRegisteredException")
        ELSE Return([st EXCEPT !.users[tg_id] = parsed], <<>>)

OrmLinkRepo_get_time_push_up(st, tg_id) ==
    LET time_value == get_time_push_up(st.users, tg_id)
    IN  IF time_value = "ChatIsNotRegisteredException"
        THEN Raise(st, time_value)
        ELSE Return(st, <<time_value>>)

(* SqlLinkRepo *)

SqlLinkRepo_register(st, tg_id) ==
    IF ~Registered(st.users, tg_id)
    THEN Return([st EXCEPT !.users = (tg_id :> None) @@ st.users], <<>>)
    ELSE Raise(st, "AlreadyRegisteredChatException")

\* DELETE FROM users: the chat's link_date rows go by ON DELETE CASCADE.
SqlLinkRepo_delete_by_tg_id(st, tg_id) ==
    IF Registered(st.users, tg_id)
    THEN Return([st EXCEPT !.users = delete_by_tg_id(st.users, tg_id),
                           !.table = Cascade(st.table, tg_id)],
                <<>>)
    ELSE Raise(st, "ChatIsNotRegisteredException")

SqlLinkRepo_list(st, tg_id, p, size) ==
    IF ~Registered(st.users, tg_id)
    THEN Raise(st, "ChatIsNotRegisteredException")
    ELSE Return(st, <<ListPage(st.table, tg_id, p, size)>>)

SqlLinkRepo_add_check(st, resp) ==
    IF ~Registered(st.users, resp.id) THEN "ChatIsNotRegisteredException"
    ELSE IF LinksOf(st.table, resp.id, resp.url) # {}
    THEN "UrlIsAlreadyFollowed"
    ELSE None

SqlLinkRepo_add_insert(st, resp, date) ==
    IF ~Registered(st.users, resp.id) THEN Raise(st, "IntegrityError")
    ELSE Return([st EXCEPT
                    !.table = Append(st.table,
                        [link_id |-> st.next_id, tg_id |-> resp.id,
                         link |-> resp.url, date |-> date,
                         filters |-> resp.filters, tags |-> resp.tags]),
                    !.next_id = st.next_id + 1],
                <<>>)

\* fetchone() takes the first row; the DELETE removes every matching row; the
\* LinkResponse has id=link_obj.link_id.
SqlLinkRepo_delete(st, tg_chat_id, link) ==
    LET found == LinksOf(st.table, tg_chat_id, link)
    IN  IF ~Registered(st.users, tg_chat_id)
        THEN Raise(st, "ChatIsNotRegisteredException")
        ELSE IF found = {} THEN Raise(st, "LinkIsNotFoundException")
        ELSE LET link_obj ==
                    st.table[CHOOSE i \in found : \A j \in found : i <= j]
             IN  Return([st EXCEPT !.table = Without(st.table, found)],
                        <<[id |-> link_obj.link_id, url |-> link_obj.link,
                           filters |-> link_obj.filters,
                           tags |-> link_obj.tags]>>)

SqlLinkRepo_get_all(st, p, size) == Return(st, <<get_all(st.table, p, size)>>)

SqlLinkRepo_delete_tag(st, tg_id, link, tag) ==
    LET found == LinksOf(st.table, tg_id, link)
    IN  IF ~Registered(st.users, tg_id)
        THEN Raise(st, "ChatIsNotRegisteredException")
        ELSE IF Cardinality(found) > 1 THEN Raise(st, "MultipleResultsFound")
        ELSE IF found = {} THEN Raise(st, "LinkIsNotFoundException")
        ELSE LET i == CHOOSE i \in found : TRUE
             IN  IF tag \notin st.table[i].tags
                 THEN Raise(st, "LinkWithTagIsNotFound")
                 ELSE Return([st EXCEPT !.table[i].tags = @ \ {tag}], <<>>)

SqlLinkRepo_add_tag(st, tg_id, link, tag) ==
    LET found == LinksOf(st.table, tg_id, link)
    IN  IF ~Registered(st.users, tg_id)
        THEN Raise(st, "ChatIsNotRegisteredException")
        ELSE IF Cardinality(found) > 1 THEN Raise(st, "MultipleResultsFound")
        ELSE IF found = {} THEN Raise(st, "LinkIsNotFoundException")
        ELSE LET i == CHOOSE i \in found : TRUE
             IN  IF tag \in st.table[i].tags
                 THEN Raise(st, "TagAlreadyExistsException")
                 ELSE Return([st EXCEPT !.table[i].tags = @ \cup {tag}], <<>>)

SqlLinkRepo_change_date(st, link_id, date) ==
    IF HasRow(st.table, link_id)
    THEN Return([st EXCEPT !.table = change_date(st.table, link_id, date)],
                <<>>)
    ELSE Raise(st, "LinkIsNotFoundException")

\* SqlLinkRepo does not define change_time_push_up: the call runs the body of
\* the LinkRepo protocol, which is `pass`.
SqlLinkRepo_change_time_push_up(st, tg_id, time_str) == Return(st, <<>>)

\* SqlLinkRepo does not define get_time_push_up either: `pass` returns None.
SqlLinkRepo_get_time_push_up(st, tg_id) == Return(st, <<None>>)

(* -------------------------- BatchLinksService -------------------------- *)

\* Mutant of ChunkSize: the quarter is rounded up.
ChunkSize_Ceil(n) == Max(1, (n + Quarter - 1) \div Quarter)

\* chunk_size = max(1, len(links) // 4)
ChunkSize(n) == Max(1, n \div Quarter)

\* Mutant of Chunks: each slice runs one link into the next chunk.
Chunks_Overlapping(ls) ==
    LET n == Len(ls)
        size == Max(1, n \div Quarter)
        count == (n + size - 1) \div size
    IN  [k \in 1..count |->
            SubSeq(ls, (k - 1) * size + 1, Min(n, k * size + 1))]

\* chunks = [links[i : i + chunk_size] for i in range(0, len(links), chunk_size)]
Chunks(ls) ==
    LET n == Len(ls)
        size == ChunkSize(n)
        count == (n + size - 1) \div size
    IN  [k \in 1..count |-> SubSeq(ls, (k - 1) * size + 1, Min(n, k * size))]

\* ignores = [f.split(":", 1)[1] for f in link.filters if f.startswith("ignore:")]
Ignores(filters) ==
    {f[2] : f \in {g \in Range(filters) : Len(g) = 2 /\ g[1] = "ignore"}}

\* Mutant of Changed: the markers are not compared.
Changed_NoDateCheck(link, info) == info.user \notin Ignores(link.filters)

\* new_date != link.date and author not in ignores
Changed(link, info) ==
    info.date # link.date /\ info.user \notin Ignores(link.filters)

\* Mutant of Deferred: the two branches are swapped.
Deferred_Swapped(push_up_time) == push_up_time = None

\* push_up_time is not None: the pair goes to _add_cron_task.
Deferred(push_up_time) == push_up_time # None

\* id=f"one_shot_{link_id}"
JobId(link_id) == <<"one_shot", link_id>>

\* Mutant of add_job: a job of the same id is kept and the new one added.
add_job_Stacking(store, job) == Append(store, job)

\* add_job(..., id=..., replace_existing=True): a job of the same id is replaced.
add_job(store, job) ==
    IF \E i \in DOMAIN store : store[i].id = job.id
    THEN [i \in DOMAIN store |-> IF store[i].id = job.id THEN job ELSE store[i]]
    ELSE Append(store, job)

\* Mutant of RemoveAt: the job stays in the store after its run.
RemoveAt_Keep(store, i) == store

\* The job store without its i-th job (a date trigger has one run).
RemoveAt(store, i) ==
    [k \in 1..(Len(store) - 1) |-> IF k < i THEN store[k] ELSE store[k + 1]]

(* ------------------------------- Init ---------------------------------- *)

\* The kinds of link a chat may have stored through LinkRepo.add.
Profiles ==
    << [link |-> UrlGitHub, filters |-> <<>>],
       [link |-> UrlStackOverflow, filters |-> <<FilterIgnoreBob>>],
       [link |-> UrlStackOverflow, filters |-> <<FilterAuthor>>],
       [link |-> UrlGitHub, filters |-> <<FilterNoColon>>],
       [link |-> UrlGitHubNoCommits, filters |-> <<>>],
       [link |-> UrlExample, filters |-> <<>>] >>

Row(id, tg, profile) ==
    [link_id |-> id, tg_id |-> tg, link |-> profile.link, date |-> "m0",
     filters |-> profile.filters]

\* n rows whose kinds start at the k-th profile; owners alternate.
TableOf(n, k) ==
    [i \in 1..n |->
        Row(i, IF i % 2 = 1 THEN 1 ELSE 2,
            Profiles[((i - 1 + k) % Len(Profiles)) + 1])]

\* n supported rows; every third belongs to the chat with a push-up time.
WideTable(n) ==
    [i \in 1..n |->
        Row(i, IF i % 3 = 0 THEN 2 ELSE 1, Profiles[((i - 1) % 2) + 1])]

InitCommon ==
    /\ users = (1 :> None) @@ (2 :> "09:00")
    /\ page = 1
    /\ pc = "start"
    /\ sleep_left = 0
    /\ cron_running = FALSE
    /\ links = <<>>
    /\ ci = 1
    /\ li = 1
    /\ links_with_updates = <<>>
    /\ to_send = <<>>
    /\ jobs = <<>>
    /\ log = <<>>
    /\ cron = <<>>
    /\ asked = 0
    /\ error = None
    /\ faults = 0
    /\ pool_queue = <<>>
    /\ worker = <<>>
    /\ attempts = <<>>
    /\ sweep = <<>>
    /\ next_id = Len(table) + 1
    /\ result = NoCall
    /\ adding = <<>>

\* The polling configurations do not look at the clock.
InitClock ==
    /\ now = 0
    /\ zone_shift = 0

Init ==
    /\ \E n \in 0..NLinks, k \in 0..(Len(Profiles) - 1) : table = TableOf(n, k)
    /\ page_size = PageSize
    /\ InitCommon
    /\ InitClock

InitWide ==
    /\ \E n \in 1..WideLinks : table = WideTable(n)
    /\ page_size = WideLinks
    /\ InitCommon
    /\ InitClock

(* ---------------------------- Scheduler.start -------------------------- *)

Exceptions ==
    {"UrlIsNotSupportedException", "NotSupportedTypeOfFilter",
     "ResourceIsNotFoundException", "NotSuccessfulResponseException",
     "NetworkError", "ChatIsNotRegisteredException",
     "LinkIsNotFoundException", "DatabaseError", "SchedulerError"}

\* Mutant of StartCron: the loop starts without starting the scheduler.
StartCron_NotStarted ==
    /\ pc = "start"
    /\ pc' = "read"
    /\ UNCHANGED <<repo, sweep, clock, pool, cron_running,
                   table, users, page, page_size, sleep_left, links, ci, li,
                   links_with_updates, to_send, jobs, log, cron, asked, error,
                   faults>>

\* self._batcher.start_cron_scheduler() before the loop.
StartCron ==
    /\ pc = "start"
    /\ cron_running' = TRUE
    /\ pc' = "read"
    /\ UNCHANGED <<repo, sweep, clock, pool,
                   table, users, page, page_size, sleep_left, links, ci, li,
                   links_with_updates, to_send, jobs, log, cron, asked, error,
                   faults>>

\* Mutant of Advance: the page is handed to the pool after its first chunk.
Advance_DispatchEarly(batch) ==
    IF li < Len(Chunks(links)[ci])
    THEN /\ li' = li + 1
         /\ links_with_updates' = batch
         /\ UNCHANGED <<ci, to_send, pc>>
    ELSE /\ to_send' = Append(to_send, batch)
         /\ links_with_updates' = <<>>
         /\ li' = 1
         /\ ci' = ci + 1
         /\ pc' = "dispatch"

\* Mutant of IdleBranch: the page counter is not reset.
IdleBranch_KeepPage ==
    /\ pc' = "sleep"
    /\ sleep_left' = IdleSleep
    /\ sweep' = <<>>
    /\ UNCHANGED <<page, links, ci, li, links_with_updates, to_send, log>>

\* else: self._page = 1; await asyncio.sleep(3600)
IdleBranch ==
    /\ page' = 1
    /\ pc' = "sleep"
    /\ sleep_left' = IdleSleep
    /\ sweep' = <<>>
    /\ UNCHANGED <<links, ci, li, links_with_updates, to_send, log>>

\* if links: await self._batcher.batch_links(links, self._repo), up to the
\* first link of the first chunk.
BatchBranch(ls) ==
    /\ pc' = "batch"
    /\ links' = ls
    /\ ci' = 1
    /\ li' = 1
    /\ links_with_updates' = <<>>
    /\ to_send' = <<>>
    /\ log' = <<>>
    /\ UNCHANGED <<page, sleep_left, sweep>>

\* links = await self._repo.get_all(page=self._page, page_size=self._page_size)
\* and the branch on its result; a database error is not caught in start.
GetAll ==
    /\ pc = "read"
    /\ asked' = page
    /\ \/ /\ faults < MaxFaults
          /\ faults' = faults + 1
          /\ pc' = "crashed"
          /\ error' = "DatabaseError"
          /\ UNCHANGED <<page, sleep_left, links, ci, li, links_with_updates,
                         to_send, log, sweep>>
       \/ /\ LET ls == get_all(table, page, page_size)
             IN  IF ls # <<>> THEN BatchBranch(ls) ELSE IdleBranch
          /\ UNCHANGED <<error, faults>>
    /\ UNCHANGED <<repo, clock, pool,
                   table, users, page_size, cron_running, jobs, cron>>

\* Time passing while the loop sleeps.
Tick ==
    /\ pc = "sleep"
    /\ sleep_left > 0
    /\ sleep_left' = Max(0, sleep_left - IdleSleep \div 2)
    /\ UNCHANGED <<repo, sweep, clock, pool,
                   table, users, page, page_size, pc, cron_running, links, ci,
                   li, links_with_updates, to_send, jobs, log, cron, asked,
                   error, faults>>

\* asyncio.sleep(3600) returns; the loop goes back to get_all.
Wake ==
    /\ pc = "sleep"
    /\ sleep_left = 0
    /\ pc' = "read"
    /\ UNCHANGED <<repo, sweep, clock, pool,
                   table, users, page, page_size, sleep_left, cron_running,
                   links, ci, li, links_with_updates, to_send, jobs, log, cron,
                   asked, error, faults>>

(* ------------------------------ batch_links ---------------------------- *)

CurrentChunk == Chunks(links)[ci]

CurrentLink == CurrentChunk[li]

\* URLTypeDefiner.define then ClientFactory.create_client, both before the try.
Resolve(link) ==
    LET url_type == define(link.link)
    IN  IF url_type \in Exceptions THEN url_type ELSE create_client(url_type)

HasJob(store, id) == \E i \in DOMAIN store : store[i].id = id

\* Mutant of LookupOrNone: the exception of the lookup is not caught.
LookupOrNone_Uncaught(looked) == looked

\* try: push_up_time = await repo.get_time_push_up(link.tg_id)
\* except Exception: push_up_time = None
LookupOrNone(looked) == IF looked \in Exceptions THEN None ELSE looked

\* The two loops' step: the next link of the chunk, or to_send.append(...) and
\* the next chunk, or the end of the loops.
Advance(batch) ==
    IF li < Len(CurrentChunk)
    THEN /\ li' = li + 1
         /\ links_with_updates' = batch
         /\ UNCHANGED <<ci, to_send, pc>>
    ELSE /\ to_send' = Append(to_send, batch)
         /\ links_with_updates' = <<>>
         /\ li' = 1
         /\ ci' = ci + 1
         /\ pc' = IF ci < Len(Chunks(links)) THEN "batch" ELSE "dispatch"

\* The body of `for link in chunk` for one result of the fetch and one
\* injected fault ("none", "get_time_push_up", "add_job" or "change_date").
ProcessOne(info, fault) ==
    LET link == CurrentLink
        changed == info.kind = "ok" /\ Changed(link, info)
        looked == IF fault = "get_time_push_up" THEN "DatabaseError"
                  ELSE get_time_push_up(users, link.tg_id)
        push_up_time == LookupOrNone(looked)
        deferred == changed /\ Deferred(push_up_time)
        batched == changed /\ ~Deferred(push_up_time)
        enqueued == deferred /\ fault # "add_job"
        written == /\ changed
                   /\ fault # "change_date"
                   /\ HasRow(table, link.link_id)
        job == [id |-> JobId(link.link_id), args |-> <<link, info>>,
                notif_time |-> push_up_time]
    IN  /\ \/ fault = "none"
           \/ /\ faults < MaxFaults
              /\ changed
              /\ fault = "add_job" => deferred
        /\ faults' = IF fault = "none" THEN faults ELSE faults + 1
        /\ jobs' = IF enqueued THEN add_job(jobs, job) ELSE jobs
        /\ cron' = IF enqueued
                   THEN (link.link_id :>
                            [last |-> job.args, fired |-> None, count |-> 0,
                             replaced |-> HasJob(jobs, job.id), late |-> 0])
                        @@ cron
                   ELSE cron
        /\ table' = IF written
                    THEN change_date(table, link.link_id, info.date)
                    ELSE table
        /\ log' = Append(log,
                    [link |-> link, info |-> info, looked |-> looked,
                     cron |-> deferred, enqueued |-> enqueued,
                     batched |-> batched,
                     write |-> IF ~changed THEN "none"
                               ELSE IF written THEN "ok"
                               ELSE IF fault = "change_date"
                               THEN "DatabaseError"
                               ELSE "LinkIsNotFoundException"])
        /\ Advance(IF batched THEN Append(links_with_updates, <<link, info>>)
                   ELSE links_with_updates)
        /\ sweep' = Append(sweep, link.link_id)
        /\ UNCHANGED <<repo, clock, pool, users, page, page_size, sleep_left,
                       cron_running, links, asked, error>>

FaultNames == {"none", "get_time_push_up", "add_job", "change_date"}

\* One link of the page, with every result its fetch may have.
ProcessLink ==
    /\ pc = "batch"
    /\ Resolve(CurrentLink) \notin Exceptions
    /\ \E info \in get_info_by_url_with_filters(
                      Resolve(CurrentLink), CurrentLink.link,
                      CurrentLink.filters),
          fault \in FaultNames :
            ProcessOne(info, fault)

\* The wide configuration's fetch results: a network error, no news, news.
WideUpstream ==
    {Failure("NetworkError"), Info("m0", "alice"), Info("m1", "alice")}

ProcessLinkWide ==
    /\ pc = "batch"
    /\ Resolve(CurrentLink) \notin Exceptions
    /\ \E info \in WideUpstream, fault \in {"none", "get_time_push_up"} :
            ProcessOne(info, fault)

\* define or create_client raises: nothing catches it in batch_links or start.
LinkCrash ==
    /\ pc = "batch"
    /\ Resolve(CurrentLink) \in Exceptions
    /\ pc' = "crashed"
    /\ error' = Resolve(CurrentLink)
    /\ UNCHANGED <<repo, sweep, clock, pool,
                   table, users, page, page_size, sleep_left, cron_running,
                   links, ci, li, links_with_updates, to_send, jobs, log, cron,
                   asked, faults>>

\* The chat deletes the link that the pass is about to process (the delete
\* endpoint runs between two awaits of batch_links).
DeleteMidPoll ==
    /\ pc = "batch"
    /\ faults < MaxFaults
    /\ HasRow(table, CurrentLink.link_id)
    /\ table' = delete(table, CurrentLink.link_id)
    /\ faults' = faults + 1
    /\ UNCHANGED <<repo, sweep, clock, pool, users, page, page_size, pc, sleep_left,
                   cron_running, links, ci, li, links_with_updates, to_send,
                   jobs, log, cron, asked, error>>

\* The owning chat of the link that the pass is about to process is deleted
\* (DELETE FROM users); its link_date rows go with it.
UnregisterMidPoll ==
    /\ pc = "batch"
    /\ faults < MaxFaults
    /\ CurrentLink.tg_id \in DOMAIN users
    /\ users' = delete_by_tg_id(users, CurrentLink.tg_id)
    /\ table' = Cascade(table, CurrentLink.tg_id)
    /\ faults' = faults + 1
    /\ UNCHANGED <<repo, sweep, clock, pool, page, page_size, pc, sleep_left, cron_running,
                   links, ci, li, links_with_updates, to_send, jobs, log, cron,
                   asked, error>>

\* with ThreadPoolExecutor(max_workers=4): executor.map(send_update_request,
\* to_send); batch_links returns and start does self._page += 1.
Dispatch ==
    /\ pc = "dispatch"
    /\ page' = page + 1
    /\ pc' = "read"
    /\ links' = <<>>
    /\ ci' = 1
    /\ li' = 1
    /\ to_send' = <<>>
    /\ log' = <<>>
    /\ UNCHANGED <<repo, sweep, clock, pool,
                   table, users, page_size, sleep_left, cron_running,
                   links_with_updates, jobs, cron, asked, error, faults>>

(* ---------------------------- the worker pool -------------------------- *)

\* Mutant of send_update_request: the loop ends at the first failed delivery.
send_update_request_StopsAtFailure(links_info, outcomes) ==
    LET failed == {i \in DOMAIN links_info : outcomes[i] = "error"}
        last == IF failed = {} THEN Len(links_info)
                ELSE CHOOSE i \in failed : \A j \in failed : i <= j
    IN  [i \in 1..last |-> [pair |-> links_info[i], result |-> outcomes[i]]]

\* UpdateSenderToBot.send_update_request: one client.post per pair, in order;
\* outcomes[i] says whether the i-th post went through or raised (the except
\* logs it). The result is the list of deliveries attempted.
send_update_request(links_info, outcomes) ==
    [i \in 1..Len(links_info) |->
        [pair |-> links_info[i], result |-> outcomes[i]]]

\* Mutant of PoolThreads: one thread per submitted batch.
PoolThreads_Unbounded(n) == n

\* Threads a ThreadPoolExecutor(max_workers=4) spawns for n submitted items.
PoolThreads(n) == Min(MaxWorkers, n)

\* with ThreadPoolExecutor(max_workers=4) as executor: executor.map(...) puts
\* every batch of to_send on the work queue.
Submit ==
    /\ pc = "dispatch"
    /\ pc' = "sending"
    /\ pool_queue' = [k \in 1..Len(to_send) |-> k]
    /\ worker' = [w \in 1..PoolThreads(Len(to_send)) |-> 0]
    /\ attempts' = [k \in 1..Len(to_send) |-> <<>>]
    /\ UNCHANGED <<repo, sweep, clock, table, users, page, page_size, sleep_left,
                   cron_running, links, ci, li, links_with_updates, to_send,
                   jobs, log, cron, asked, error, faults>>

\* An idle pool thread takes the next batch off the work queue and calls
\* send_update_request with it.
Take(w) ==
    /\ pc = "sending"
    /\ worker[w] = 0
    /\ pool_queue # <<>>
    /\ worker' = [worker EXCEPT ![w] = Head(pool_queue)]
    /\ pool_queue' = Tail(pool_queue)
    /\ UNCHANGED <<repo, sweep, clock, attempts, table, users, page, page_size, pc,
                   sleep_left, cron_running, links, ci, li, links_with_updates,
                   to_send, jobs, log, cron, asked, error, faults>>

\* The send_update_request call of a pool thread returns.
Finish(w) ==
    /\ pc = "sending"
    /\ worker[w] # 0
    /\ \E outcomes \in [DOMAIN to_send[worker[w]] -> {"sent", "error"}] :
          attempts' = [attempts EXCEPT
                         ![worker[w]] = Append(@,
                            send_update_request(to_send[worker[w]], outcomes))]
    /\ worker' = [worker EXCEPT ![w] = 0]
    /\ UNCHANGED <<repo, sweep, clock, pool_queue, table, users, page, page_size, pc,
                   sleep_left, cron_running, links, ci, li, links_with_updates,
                   to_send, jobs, log, cron, asked, error, faults>>

PoolStep == \E w \in DOMAIN worker : Take(w) \/ Finish(w)

\* The with block ends once every batch was sent; batch_links returns and
\* start does self._page += 1.
Join ==
    /\ pc = "sending"
    /\ pool_queue = <<>>
    /\ \A w \in DOMAIN worker : worker[w] = 0
    /\ page' = page + 1
    /\ pc' = "read"
    /\ links' = <<>>
    /\ ci' = 1
    /\ li' = 1
    /\ to_send' = <<>>
    /\ log' = <<>>
    /\ worker' = <<>>
    /\ attempts' = <<>>
    /\ UNCHANGED <<repo, sweep, clock, pool_queue, table, users, page_size, sleep_left,
                   cron_running, links_with_updates, jobs, cron, asked, error,
                   faults>>

\* The fetch results of the pool configuration: every fourth link has no
\* news, the others have.
PoolUpstream(link) ==
    IF link.link_id % Quarter = 0 THEN Info("m0", "alice")
    ELSE Info("m1", "alice")

ProcessLinkPool ==
    /\ pc = "batch"
    /\ Resolve(CurrentLink) \notin Exceptions
    /\ ProcessOne(PoolUpstream(CurrentLink), "none")

(* ------------------------- the deferred scheduler ---------------------- *)

\* Seconds after its run date at which the scheduler gets to a due job.
Lateness == {0, MisfireGrace, MisfireGrace + 1}

\* Mutant of Misfired: a job exactly misfire_grace_time late is dropped.
Misfired_AtGrace(late) == late >= MisfireGrace

\* APScheduler drops a run that is later than misfire_grace_time.
Misfired(late) == late > MisfireGrace

\* The scheduler reaches the i-th job `late` seconds after its run date: within
\* misfire_grace_time it calls send_update_request(args), beyond it the run is
\* missed; a date trigger has no further run, so the job leaves the store.
RunJob(i, late) ==
    LET job == jobs[i]
        id == job.id[2]
    IN  /\ cron_running
        /\ pc \in {"read", "batch", "sleep"}
        /\ jobs' = RemoveAt(jobs, i)
        /\ cron' = IF Misfired(late)
                   THEN [cron EXCEPT ![id].late = late]
                   ELSE [cron EXCEPT ![id].fired = job.args,
                                     ![id].count = Min(2, @ + 1),
                                     ![id].late = late]
        /\ UNCHANGED <<repo, sweep, clock, pool,
                       table, users, page, page_size, pc, sleep_left,
                       cron_running, links, ci, li, links_with_updates,
                       to_send, log, asked, error, faults>>

CronRun == \E i \in DOMAIN jobs, late \in Lateness : RunJob(i, late)

(* ---------------------------- _add_cron_task --------------------------- *)

\* The instant of day d, h:m, in Moscow wall-clock minutes.
At(d, h, m) == d * MinutesPerDay + h * 60 + m

\* datetime.time(h, m) as minutes after midnight.
TimeOfDay(h, m) == h * 60 + m

\* Instants at which _add_cron_task is called (Moscow time, day 1).
Instants == {At(1, 0, 30), At(1, 8, 0), At(1, 9, 0), At(1, 9, 30), At(1, 22, 30)}

\* time_push_up values of a chat.
NotifTimes == {TimeOfDay(0, 10), TimeOfDay(9, 0), TimeOfDay(23, 0)}

\* Zone of the process relative to Europe/Moscow: UTC, Moscow, Moscow + 2 h.
ZoneShifts == {0 - 180, 0, 120}

\* today = date.today(): the date in the process's local zone, as a day number.
Today(instant, shift) == (instant + shift) \div MinutesPerDay

\* run_dt = self._tz.localize(datetime.combine(today, notif_time));
\* if run_dt < datetime.now(self._tz): run_dt += timedelta(days=1)
RunDate(instant, shift, notif_time) ==
    LET run_dt == Today(instant, shift) * MinutesPerDay + notif_time
    IN  IF run_dt < instant THEN run_dt + MinutesPerDay ELSE run_dt

\* A configuration in which only _add_cron_task is exercised: two links of a
\* chat that has a delivery time, any instant, any zone of the process.
InitCronTask ==
    /\ table = [i \in 1..2 |-> Row(i, 2, Profiles[i])]
    /\ page_size = PageSize
    /\ InitCommon
    /\ now \in Instants
    /\ zone_shift \in ZoneShifts

\* _add_cron_task(link_id, [(link, info)], notif_time); an exception of add_job
\* is logged and swallowed.
AddCronTask ==
    /\ cron_running
    /\ \E i \in DOMAIN table, notif_time \in NotifTimes, raised \in BOOLEAN :
          LET job == [id |-> JobId(table[i].link_id),
                      args |-> <<LinkDTO(table[i]), Info("m1", "alice")>>,
                      notif_time |-> notif_time,
                      run_date |-> RunDate(now, zone_shift, notif_time)]
          IN  /\ raised => faults < MaxFaults
              /\ faults' = IF raised THEN faults + 1 ELSE faults
              /\ jobs' = IF raised THEN jobs ELSE add_job(jobs, job)
    /\ UNCHANGED <<repo, sweep, clock, pool, table, users, page, page_size, pc,
                   sleep_left, cron_running, links, ci, li, links_with_updates, to_send,
                   log, cron, asked, error>>

(* ----------------------- the API handlers' LinkRepo calls -------------- *)

\* What Scheduler.start and batch_links own; no LinkRepo call of a handler
\* touches it.
loop == <<page, page_size, pc, sleep_left, cron_running, links, ci, li,
          links_with_updates, to_send, jobs, log, cron, asked, error, faults,
          sweep, clock, pool>>

\* The most add calls that are between their check and their insert.
MaxCallers == 2

\* LinkResponse arguments of add.
Resps == [id : Chats, url : Urls, filters : {<<>>}, tags : {{}}]

\* An empty database, the loop not started.
InitRepo ==
    /\ table = <<>>
    /\ users = <<>>
    /\ page_size = PageSize
    /\ page = 1
    /\ pc = "start"
    /\ sleep_left = 0
    /\ cron_running = FALSE
    /\ links = <<>>
    /\ ci = 1
    /\ li = 1
    /\ links_with_updates = <<>>
    /\ to_send = <<>>
    /\ jobs = <<>>
    /\ log = <<>>
    /\ cron = <<>>
    /\ asked = 0
    /\ error = None
    /\ faults = 0
    /\ pool_queue = <<>>
    /\ worker = <<>>
    /\ attempts = <<>>
    /\ sweep = <<>>
    /\ next_id = 1
    /\ result = NoCall
    /\ adding = <<>>
    /\ InitClock

\* One call served by OrmLinkRepo, with what SqlLinkRepo does for the same
\* call on the same database next to it.
Call(op, args, orm, sql) ==
    /\ table' = orm.store.table
    /\ users' = orm.store.users
    /\ next_id' = orm.store.next_id
    /\ result' = [op |-> op, args |-> args, orm |-> Outcome(orm),
                  sql |-> Outcome(sql), same |-> orm.store = sql.store]
    /\ UNCHANGED loop

Register ==
    /\ \E tg_id \in Chats :
          Call("register", <<tg_id>>, OrmLinkRepo_register(Store, tg_id),
               SqlLinkRepo_register(Store, tg_id))
    /\ UNCHANGED adding

DeleteByTgId ==
    /\ \E tg_id \in Chats :
          Call("delete_by_tg_id", <<tg_id>>,
               OrmLinkRepo_delete_by_tg_id(Store, tg_id),
               SqlLinkRepo_delete_by_tg_id(Store, tg_id))
    /\ UNCHANGED adding

List ==
    /\ \E tg_id \in Chats, p \in 1..2 :
          Call("list", <<tg_id, p>>,
               OrmLinkRepo_list(Store, tg_id, p, page_size),
               SqlLinkRepo_list(Store, tg_id, p, page_size))
    /\ UNCHANGED adding

\* add up to its check: it raises, or goes on to the insert.
AddCheck ==
    /\ Len(adding) < MaxCallers
    /\ next_id + Len(adding) <= MaxRows
    /\ \E resp \in Resps :
          LET raised == OrmLinkRepo_add_check(Store, resp)
              sql_raised == SqlLinkRepo_add_check(Store, resp)
          IN  IF raised = None
              THEN /\ adding' = Append(adding, resp)
                   /\ UNCHANGED <<table, users, next_id, result, loop>>
              ELSE /\ Call("add", <<resp>>, Raise(Store, raised),
                           IF sql_raised = None
                           THEN SqlLinkRepo_add_insert(Store, resp, "m0")
                           ELSE Raise(Store, sql_raised))
                   /\ UNCHANGED adding

\* add from its insert to its commit, for one of the calls that passed the
\* check.
AddInsert ==
    \E i \in DOMAIN adding :
        /\ Call("add", <<adding[i]>>,
                OrmLinkRepo_add_insert(Store, adding[i], "m0"),
                SqlLinkRepo_add_insert(Store, adding[i], "m0"))
        /\ adding' = RemoveAt(adding, i)

Delete ==
    /\ \E tg_chat_id \in Chats, link \in Urls :
          Call("delete", <<tg_chat_id, link>>,
               OrmLinkRepo_delete(Store, tg_chat_id, link),
               SqlLinkRepo_delete(Store, tg_chat_id, link))
    /\ UNCHANGED adding

GetAllCall ==
    /\ \E p \in 1..2 :
          Call("get_all", <<p>>, OrmLinkRepo_get_all(Store, p, page_size),
               SqlLinkRepo_get_all(Store, p, page_size))
    /\ UNCHANGED adding

DeleteTag ==
    /\ \E tg_id \in Chats, link \in Urls, tag \in Tags :
          Call("delete_tag", <<tg_id, link, tag>>,
               OrmLinkRepo_delete_tag(Store, tg_id, link, tag),
               SqlLinkRepo_delete_tag(Store, tg_id, link, tag))
    /\ UNCHANGED adding

AddTag ==
    /\ \E tg_id \in Chats, link \in Urls, tag \in Tags :
          Call("add_tag", <<tg_id, link, tag>>,
               OrmLinkRepo_add_tag(Store, tg_id, link, tag),
               SqlLinkRepo_add_tag(Store, tg_id, link, tag))
    /\ UNCHANGED adding

ChangeDate ==
    /\ \E link_id \in 1..MaxRows :
          Call("change_date", <<link_id, "m1">>,
               OrmLinkRepo_change_date(Store, link_id, "m1"),
               SqlLinkRepo_change_date(Store, link_id, "m1"))
    /\ UNCHANGED adding

ChangeTimePushUp ==
    /\ \E tg_id \in Chats, time_str \in TimeStrings :
          Call("change_time_push_up", <<tg_id, time_str>>,
               OrmLinkRepo_change_time_push_up(Store, tg_id, time_str),
               SqlLinkRepo_change_time_push_up(Store, tg_id, time_str))
    /\ UNCHANGED adding

GetTimePushUp ==
    /\ \E tg_id \in Chats :
          Call("get_time_push_up", <<tg_id>>,
               OrmLinkRepo_get_time_push_up(Store, tg_id),
               SqlLinkRepo_get_time_push_up(Store, tg_id))
    /\ UNCHANGED adding

\* A chat that has a deferred job pending changes or clears its delivery time
\* (change_time_push_up of the API) between two steps of the loop.
ChangePrefMidPoll ==
    /\ pc \in {"read", "batch", "sleep"}
    /\ faults < MaxFaults
    /\ \E tg_id \in DOMAIN users, time_str \in {None, "18:00"} :
          LET call == OrmLinkRepo_change_time_push_up(Store, tg_id, time_str)
          IN  /\ \E i \in DOMAIN jobs : jobs[i].args[1].tg_id = tg_id
              /\ call.raised = None
              /\ call.store.users # users
              /\ users' = call.store.users
    /\ faults' = faults + 1
    /\ UNCHANGED <<repo, sweep, clock, pool, table, page, page_size, pc,
                   sleep_left, cron_running, links, ci, li, links_with_updates,
                   to_send, jobs, log, cron, asked, error>>

\* One link of the page, every call of the database succeeding.
ProcessLinkNoFault ==
    /\ pc = "batch"
    /\ Resolve(CurrentLink) \notin Exceptions
    /\ \E info \in get_info_by_url_with_filters(
                      Resolve(CurrentLink), CurrentLink.link,
                      CurrentLink.filters) :
            ProcessOne(info, "none")

(* --------------------------- specifications ---------------------------- *)

Next ==
    \/ StartCron
    \/ GetAll
    \/ ProcessLink
    \/ LinkCrash
    \/ Dispatch
    \/ Tick
    \/ Wake
    \/ CronRun

Spec == Init /\ [][Next]_vars

\* One sweep over a long page, from page 1 to the idle sleep.
NextWide ==
    \/ StartCron
    \/ GetAll
    \/ ProcessLinkWide
    \/ Dispatch

WideSpec == InitWide /\ [][NextWide]_vars

\* Calls of _add_cron_task once the deferred scheduler runs.
NextCronTask ==
    \/ StartCron
    \/ AddCronTask

CronTaskSpec == InitCronTask /\ [][NextCronTask]_vars

\* The polling loop while chats delete links and unregister.
NextRace ==
    \/ StartCron
    \/ GetAll
    \/ ProcessLink
    \/ LinkCrash
    \/ DeleteMidPoll
    \/ UnregisterMidPoll
    \/ Dispatch
    \/ Tick
    \/ Wake

RaceSpec == Init /\ [][NextRace]_vars

\* One sweep over a long page with the worker pool's steps spelled out.
NextPool ==
    \/ StartCron
    \/ GetAll
    \/ ProcessLinkPool
    \/ Submit
    \/ PoolStep
    \/ Join

PoolSpec == InitWide /\ [][NextPool]_vars

\* The loop and the deferred scheduler while chats change their delivery
\* time.
NextPref ==
    \/ StartCron
    \/ GetAll
    \/ ProcessLinkNoFault
    \/ LinkCrash
    \/ Dispatch
    \/ Tick
    \/ Wake
    \/ CronRun
    \/ ChangePrefMidPoll

PrefSpec == Init /\ [][NextPref]_vars

\* The repository under the calls of the API handlers.
NextRepo ==
    \/ Register
    \/ DeleteByTgId
    \/ List
    \/ AddCheck
    \/ AddInsert
    \/ Delete
    \/ GetAllCall
    \/ DeleteTag
    \/ AddTag
    \/ ChangeDate
    \/ ChangeTimePushUp
    \/ GetTimePushUp

RepoSpec == InitRepo /\ [][NextRepo]_vars

(* ------------------------------- claims -------------------------------- *)

RECURSIVE Flatten(_)
\* The pairs of a list of batches, in order.
Flatten(batches) ==
    IF batches = <<>> THEN <<>>
    ELSE Head(batches) \o Flatten(Tail(batches))

\* Every pair batched so far in this batch_links call.
Batched == Flatten(to_send) \o links_with_updates

\* The immediate batch of the k-th chunk, as far as it is built.
BatchOfChunk(k) ==
    IF k <= Len(to_send) THEN to_send[k]
    ELSE IF k = Len(to_send) + 1 THEN links_with_updates
    ELSE <<>>

\* How many times x occurs in the sequence s.
Count(s, x) == Cardinality({i \in DOMAIN s : s[i] = x})

\* The log record of the link this step processed.
Done == log'[Len(log')]

StepsLink == pc = "batch" /\ Len(log') = Len(log) + 1

\* C1: a link whose fetched marker equals the marker of its LinkDTO makes the
\* pass write nothing to the store, schedule no job and batch no pair, on the
\* first pass and on every later pass over the same unchanged pair.
C1_UnchangedMarkerNoSideEffect ==
    [][(StepsLink /\ Done.info.kind = "ok"
            /\ Done.info.date = Done.link.date)
        => /\ table' = table
           /\ jobs' = jobs
           /\ cron' = cron
           /\ Batched' = Batched
           /\ Done.write = "none" /\ ~Done.cron /\ ~Done.batched]_vars

\* C1 witness: a second pass met a link whose marker an earlier pass had
\* written, and the fetch returned that marker again.
C1_Witness ==
    \E i \in DOMAIN log :
        /\ log[i].info.kind = "ok"
        /\ log[i].link.date = "m1"
        /\ log[i].info.date = "m1"

\* C2: a link whose fetched marker differs and whose author is one of its
\* ignore filters has its stored marker updated (change_date is called) and
\* gets no notification job, neither scheduled nor batched.
C2_IgnoredAuthorUpdatesMarker ==
    \A i \in DOMAIN log :
        (/\ log[i].info.kind = "ok"
         /\ log[i].info.date # log[i].link.date
         /\ log[i].info.user \in Ignores(log[i].link.filters))
        => /\ log[i].write # "none"
           /\ ~log[i].cron
           /\ ~log[i].batched

\* The links a log record is about: changed marker, author not ignored.
NotifyWorthy(e) ==
    /\ e.info.kind = "ok"
    /\ e.info.date # e.link.date
    /\ e.info.user \notin Ignores(e.link.filters)

\* The chunk of the i-th link of the page.
ChunkIndex(i) == ((i - 1) \div ChunkSize(Len(links))) + 1

\* One job per notify-worthy link: handed to _add_cron_task or appended once
\* to its own chunk's batch, never both, never to another chunk's batch.
OneJob(i) ==
    LET e == log[i]
        pair == <<e.link, e.info>>
    IN  /\ e.cron # e.batched
        /\ Count(BatchOfChunk(ChunkIndex(i)), pair) = (IF e.batched THEN 1 ELSE 0)
        /\ Count(Batched, pair) = (IF e.batched THEN 1 ELSE 0)

\* C3 as stated: the job of a notify-worthy link is deferred exactly when the
\* owning chat's stored delivery preference is not None.
C3_Original ==
    \A i \in DOMAIN log :
        NotifyWorthy(log[i])
        => /\ OneJob(i)
           /\ log[i].cron <=> (/\ log[i].link.tg_id \in DOMAIN users
                               /\ users[log[i].link.tg_id] # None)

\* C3: every notify-worthy link gets exactly one job in the pass; it is handed
\* to the deferred scheduler exactly when get_time_push_up returned a time (a
\* lookup that raised counts as None) and is otherwise appended once to its
\* chunk's immediate batch.
C3_OneJobRoutedByLookup ==
    \A i \in DOMAIN log :
        NotifyWorthy(log[i])
        => /\ OneJob(i)
           /\ log[i].cron <=> (/\ log[i].looked \notin Exceptions
                               /\ log[i].looked # None)

\* C3 witness: one chunk whose batch holds two pairs while another link of
\* the page went to the deferred scheduler.
C3_Witness ==
    /\ \E k \in DOMAIN to_send : Len(to_send[k]) >= 2
    /\ \E i \in DOMAIN log : NotifyWorthy(log[i]) /\ log[i].cron

C5_OtherLinksStillProcessed ==
    pc \in {"dispatch", "crashed"}
    => \A j \in DOMAIN links :
          \/ \E i \in DOMAIN log : log[i].link = links[j]
          \/ Resolve(links[j]) \in Exceptions

\* C6: no error ends Scheduler.start, and the loop pauses only after an
\* empty page.
C6_NoErrorEndsTheLoop ==
    /\ pc # "crashed"
    /\ pc = "sleep" => get_all(table, asked, page_size) = <<>>

\* C7: an empty page sets the page counter to 1 and starts a sleep of 3600
\* seconds; the loop leaves the sleep only when the 3600 seconds have passed,
\* and the read that follows requests page 1.
C7_EmptyPageResetsAndSleeps ==
    [][/\ (pc = "read" /\ pc' \notin {"read", "crashed"}
              /\ get_all(table, page, page_size) = <<>>)
          => (pc' = "sleep" /\ page' = 1 /\ sleep_left' = IdleSleep)
       /\ (pc = "sleep" /\ pc' # "sleep")
          => (pc' = "read" /\ sleep_left = 0 /\ page' = 1)
       /\ pc = "sleep" => page' = 1
       /\ (pc = "read" /\ pc' # "read") => asked' = page]_vars

\* C7 witness: the sleep that followed an empty second page is over.
C7_Witness == pc = "sleep" /\ sleep_left = 0 /\ asked = 2 /\ page = 1

\* C8: a non-empty page is processed to its end whatever its links do, then
\* the page counter grows by one and the next read requests that page; the
\* loop never stops.
C8_PageAdvancesLoopNeverStops ==
    [][/\ pc = "batch" => pc' \in {"batch", "dispatch"}
       /\ pc = "dispatch" => (pc' = "read" /\ page' = page + 1)
       /\ (pc = "read" /\ pc' # "read")
          => (asked' = page /\ pc' \in {"batch", "sleep"})]_vars

\* C9 as stated: at most 4 chunks, each of ceil(n/4) links, the last one
\* possibly smaller.
C9_Original ==
    pc \in {"batch", "dispatch"}
    => LET n == Len(links)
           chunks == Chunks(links)
           ceil == (n + Quarter - 1) \div Quarter
       IN  /\ Len(chunks) <= Quarter
           /\ \A k \in DOMAIN chunks :
                /\ Len(chunks[k]) >= 1
                /\ Len(chunks[k]) <= ceil
                /\ k < Len(chunks) => Len(chunks[k]) = ceil

\* C9: a page of n links is cut into chunks of max(1, floor(n/4)) links, the
\* last one possibly smaller: at most 7 chunks, and one immediate batch per
\* chunk once the page is processed.
C9_ChunksOfFloorQuarter ==
    pc \in {"batch", "dispatch"}
    => LET n == Len(links)
           chunks == Chunks(links)
           size == IF n < Quarter THEN 1 ELSE n \div Quarter
       IN  /\ Len(chunks) <= 7
           /\ Len(chunks) * size >= n
           /\ (Len(chunks) - 1) * size < n
           /\ \A k \in DOMAIN chunks :
                /\ Len(chunks[k]) >= 1
                /\ Len(chunks[k]) <= size
                /\ k < Len(chunks) => Len(chunks[k]) = size
           /\ pc = "dispatch" => Len(to_send) = Len(chunks)
           /\ pc = "batch" => Len(to_send) = ci - 1 /\ ci <= Len(chunks)

\* C9 witness: a page of 5 links was processed as 5 chunks.
C9_Witness == pc = "dispatch" /\ Len(links) = 5 /\ Len(to_send) = 5

\* C10: the chunks are disjoint and cover the page in order, so that no link
\* is fetched twice in one batch_links call and no pair is batched twice.
C10_ChunksPartitionThePage ==
    pc \in {"batch", "dispatch"}
    => /\ Flatten(Chunks(links)) = links
       /\ \A i, j \in DOMAIN log :
            log[i].link.link_id = log[j].link.link_id => i = j
       /\ \A i \in DOMAIN log : log[i].link = links[i]
       /\ \A i, j \in DOMAIN Batched :
            Batched[i][1].link_id = Batched[j][1].link_id => i = j
       /\ pc = "dispatch" => Len(log) = Len(links)

\* C10 witness: a page of 8 links was processed, 2 per chunk, and one chunk
\* batched both of its links.
C10_Witness ==
    /\ pc = "dispatch"
    /\ Len(links) = 8
    /\ Len(log) = 8
    /\ \E k \in DOMAIN to_send : Len(to_send[k]) = 2

\* The next occurrence of a time of day in Europe/Moscow: today when it has
\* not passed yet, tomorrow when it has.
NextOccurrence(instant, notif_time) ==
    LET day == instant \div MinutesPerDay
    IN  IF notif_time < instant % MinutesPerDay
        THEN (day + 1) * MinutesPerDay + notif_time
        ELSE day * MinutesPerDay + notif_time

\* C11: every job _add_cron_task puts in the store runs at the next occurrence
\* of its time of day in Europe/Moscow: today if that time has not passed,
\* tomorrow if it has.
C11_RunDateIsNextOccurrence ==
    \A i \in DOMAIN jobs :
        jobs[i].run_date = NextOccurrence(now, jobs[i].notif_time)

\* The rows of the store that belong to a link id.
RowsOf(link_id) == {i \in DOMAIN table : table[i].link_id = link_id}

MovedPast(i) ==
    Len(log) = i
    => IF i = Len(links) THEN pc = "dispatch"
       ELSE pc \in {"batch", "crashed"} /\ CurrentLink = links[i + 1]

C16_DeletedLinkIsSkipped ==
    \A i \in DOMAIN log :
        log[i].write = "LinkIsNotFoundException"
        => /\ ~log[i].batched
           /\ ~log[i].cron
           /\ MovedPast(i)

\* C17: when a deferred pair could not be enqueued, or its job was dropped as
\* a misfire, nothing was sent for it and the store still holds a marker that
\* differs from the observed one, so that the next poll detects it again.
C17_LostNotificationIsRedetected ==
    /\ \A i \in DOMAIN log :
          (NotifyWorthy(log[i]) /\ log[i].cron /\ ~log[i].enqueued)
          => /\ ~log[i].batched
             /\ \A r \in RowsOf(log[i].link.link_id) :
                   table[r].date # log[i].info.date
    /\ \A id \in DOMAIN cron :
          (~HasJob(jobs, JobId(id)) /\ Misfired(cron[id].late))
          => /\ cron[id].count = 0
             /\ \A r \in RowsOf(id) : table[r].date # cron[id].last[2].date

\* C18: a job the scheduler reaches at most 300 seconds after its run date
\* fires, with the pair it holds; a job reached later is dropped and never
\* delivered.
C18_GraceWindowDecidesTheRun ==
    \A id \in DOMAIN cron :
        ~HasJob(jobs, JobId(id))
        => /\ cron[id].late <= MisfireGrace
                => (cron[id].count = 1 /\ cron[id].fired = cron[id].last)
           /\ cron[id].late > MisfireGrace
                => (cron[id].count = 0 /\ cron[id].fired = None)

\* C18 witness: a job reached exactly 300 seconds late has fired.
C18_Witness ==
    \E id \in DOMAIN cron :
        /\ ~HasJob(jobs, JobId(id))
        /\ cron[id].late = MisfireGrace
        /\ cron[id].count = 1

\* Every job ever enqueued is in the store with its latest pair, or has run,
\* or was dropped as a misfire; the store holds one job per id.
JobTableSound ==
    /\ \A i, j \in DOMAIN jobs : jobs[i].id = jobs[j].id => i = j
    /\ \A i \in DOMAIN jobs : jobs[i].id[2] \in DOMAIN cron
    /\ \A id \in DOMAIN cron :
          \/ \E i \in DOMAIN jobs :
                jobs[i].id = JobId(id) /\ jobs[i].args = cron[id].last
          \/ cron[id].count = 1 /\ cron[id].fired = cron[id].last
          \/ Misfired(cron[id].late)

\* C19: the deferred scheduler is started once, before the first get_all, and
\* never again; the schedule and replace calls made while it runs lose no
\* job, duplicate none and leave one job per link id in the store.
C19_StartedOnceJobTableSound ==
    /\ [](/\ pc # "start" => cron_running
          /\ asked > 0 => cron_running
          /\ JobTableSound)
    /\ [][/\ cron_running => cron_running'
          /\ (~cron_running /\ cron_running') => (pc = "start" /\ asked = 0)
          /\ pc # "start" => pc' # "start"]_vars

\* C19 witness: while the scheduler runs, a second schedule call for a link
\* replaced the pending job of that link.
C19_Witness ==
    /\ cron_running
    /\ \E id \in DOMAIN cron :
          /\ cron[id].replaced
          /\ HasJob(jobs, JobId(id))
          /\ Cardinality({i \in DOMAIN jobs : jobs[i].id = JobId(id)}) = 1

\* The pool threads that are inside a send_update_request call.
Busy == {w \in DOMAIN worker : worker[w] # 0}

\* Whether anything was handed to the worker pool in this batch_links call.
PoolUsed == pool_queue # <<>> \/ Busy # {} \/ attempts # <<>>

\* C13: when the batches of a page are handed to the worker pool every link of
\* the page was processed and every marker written for it is in the store,
\* and no write happens while the pool sends; the sends may end in any order.
C13_WritesBeforePoolDispatch ==
    /\ [](PoolUsed
          => /\ pc = "sending"
             /\ Len(log) = Len(links)
             /\ \A i \in DOMAIN log :
                  log[i].write = "ok"
                  => \E r \in RowsOf(log[i].link.link_id) :
                        table[r].date = log[i].info.date)
    /\ [][pc = "sending" => table' = table]_vars

\* C13 witness: the send of the second chunk's batch has ended while the send
\* of the first chunk's batch is still in progress.
C13_Witness ==
    /\ pc = "sending"
    /\ Len(attempts) >= 2
    /\ attempts[1] = <<>>
    /\ \E w \in Busy : worker[w] = 1
    /\ Len(attempts[2]) = 1
    /\ \E i \in DOMAIN log : log[i].write = "ok"

\* C15: every finished send_update_request call attempted one delivery per
\* pair of its batch, in order, whatever the outcome of each delivery; for an
\* empty batch it attempted none; the pass goes on after every call.
C15_OneAttemptPerPair ==
    /\ attempts # <<>> => pc = "sending"
    /\ \A k \in DOMAIN attempts :
          \A c \in DOMAIN attempts[k] :
             LET call == attempts[k][c]
             IN  /\ Len(call) = Len(to_send[k])
                 /\ \A i \in DOMAIN call :
                      /\ call[i].pair = to_send[k][i]
                      /\ call[i].result \in {"sent", "error"}

\* C15 witness: in a batch of two pairs the first delivery failed and the
\* second was made; the call for an empty batch attempted nothing.
C15_Witness ==
    /\ \E k \in DOMAIN attempts :
          /\ Len(to_send[k]) = 2
          /\ Len(attempts[k]) = 1
          /\ attempts[k][1][1].result = "error"
          /\ attempts[k][1][2].result = "sent"
    /\ \E k \in DOMAIN attempts :
          to_send[k] = <<>> /\ attempts[k] = <<<<>>>>

\* How many times the k-th batch is on the work queue, in a thread's hands or
\* sent.
Handed(k) ==
    Count(pool_queue, k) + Count(worker, k) + Len(attempts[k])

\* C20: once the page's chunks are built every batch of to_send is handed to
\* send_update_request exactly once, by one pool thread, and at most 4 sends
\* are in progress at any time; when the pool is done every batch was sent
\* once.
C20_EachBatchOnceAtMostFourSends ==
    pc = "sending"
    => /\ Len(attempts) = Len(to_send)
       /\ Len(to_send) = Len(Chunks(links))
       /\ \A k \in DOMAIN to_send : Handed(k) = 1
       /\ Cardinality(Busy) <= MaxWorkers
       /\ (pool_queue = <<>> /\ Busy = {})
            => \A k \in DOMAIN to_send : Len(attempts[k]) = 1

\* C20 witness: 4 sends are in progress while 3 more batches wait in the
\* queue.
C20_Witness ==
    /\ pc = "sending"
    /\ Cardinality(Busy) = MaxWorkers
    /\ Len(pool_queue) = 3


(* ----------------------------- C21 .. C30 ------------------------------ *)

\* C21: in every reachable store state no two tracked links have the same
\* (chat id, URL) pair, also when two add calls for the same pair overlap.
C21_NoDuplicatePairs ==
    \A i, j \in DOMAIN table :
        (table[i].tg_id = table[j].tg_id /\ table[i].link = table[j].link)
            => i = j

\* C22: on a chat that tracks no link (the calls of the claim are register
\* and delete_by_tg_id only), register succeeds exactly when the chat is not
\* registered and registers it, delete_by_tg_id succeeds exactly when it is
\* registered and unregisters it, the other cases raise
\* AlreadyRegisteredChatException and ChatIsNotRegisteredException, and a call
\* that raises leaves the store unchanged.
C22_RegisterAndDeleteAlternate ==
    [][(/\ result' # result
        /\ result'.op \in {"register", "delete_by_tg_id"}
        /\ \A i \in DOMAIN table : table[i].tg_id # result'.args[1])
       => LET tg_id == result'.args[1]
              raised == result'.orm.raised
          IN  IF result'.op = "register"
              THEN IF tg_id \notin DOMAIN users
                   THEN raised = None /\ tg_id \in DOMAIN users'
                   ELSE /\ raised = "AlreadyRegisteredChatException"
                        /\ users' = users /\ table' = table
              ELSE IF tg_id \in DOMAIN users
                   THEN raised = None /\ tg_id \notin DOMAIN users'
                   ELSE /\ raised = "ChatIsNotRegisteredException"
                        /\ users' = users /\ table' = table]_vars

\* A registered chat was unregistered by delete_by_tg_id.
C22_Witness ==
    /\ result.op = "delete_by_tg_id"
    /\ result.orm.raised = None
    /\ result.args[1] \notin DOMAIN users

\* C23: add_tag and delete_tag raise ChatIsNotRegisteredException for an
\* unregistered chat, else LinkIsNotFoundException for an untracked link, else
\* TagAlreadyExistsException (add_tag, tag present) or LinkWithTagIsNotFound
\* (delete_tag, tag absent), changing nothing; otherwise they succeed and the
\* tag is present after add_tag and absent after delete_tag.
C23_TagPreconditionsInOrder ==
    [][(result' # result /\ result'.op \in {"add_tag", "delete_tag"})
       => LET tg_id == result'.args[1]
              link == result'.args[2]
              tag == result'.args[3]
              found == LinksOf(table, tg_id, link)
              has == \E i \in found : tag \in table[i].tags
              raised == result'.orm.raised
              same == users' = users /\ table' = table
          IN  IF tg_id \notin DOMAIN users
              THEN raised = "ChatIsNotRegisteredException" /\ same
              ELSE IF found = {}
              THEN raised = "LinkIsNotFoundException" /\ same
              ELSE IF result'.op = "add_tag" /\ has
              THEN raised = "TagAlreadyExistsException" /\ same
              ELSE IF result'.op = "delete_tag" /\ ~has
              THEN raised = "LinkWithTagIsNotFound" /\ same
              ELSE /\ raised = None
                   /\ \A i \in LinksOf(table', tg_id, link) :
                         (tag \in table'[i].tags) = (result'.op = "add_tag")]_vars

\* C30: every LinkRepo call returns the same, raises the same and leaves the
\* same store with OrmLinkRepo as with SqlLinkRepo.
C30_ReposInterchangeable ==
    /\ result.orm.raised = result.sql.raised
    /\ result.orm.returned = result.sql.returned
    /\ result.same

\* C24: a deferred job fires at most once; when it fires it delivers exactly
\* the one (link, snapshot) pair of its most recent scheduling, for its own
\* link id; after it fired no job is pending for that link id.
C24_DeferredJobIsOneShot ==
    \A id \in DOMAIN cron :
        /\ cron[id].count <= 1
        /\ cron[id].count = 1
             => /\ cron[id].fired = cron[id].last
                /\ Len(cron[id].fired) = 2
                /\ cron[id].fired[1].link_id = id
                /\ ~HasJob(jobs, JobId(id))

\* C24 witness: a job that was scheduled once has fired on time.
C24_Witness ==
    \E id \in DOMAIN cron :
        /\ cron[id].count = 1
        /\ ~cron[id].replaced
        /\ cron[id].late = 0
        /\ cron[id].fired = cron[id].last
        /\ ~HasJob(jobs, JobId(id))

\* C25: the run date computed by _add_cron_task is never earlier than the
\* current time in the scheduler's time zone and less than 24 hours after it,
\* whatever the instant, the time-of-day and the zone of the process.
C25_RunDateWithinNextDay ==
    \A i \in DOMAIN jobs :
        /\ now <= jobs[i].run_date
        /\ jobs[i].run_date < now + MinutesPerDay

\* C26: a notification is enqueued (appended to the immediate batch or
\* scheduled as a deferred job) only for a change whose marker write succeeds,
\* so that the next pass finds the stored marker equal to the reported one
\* and does not notify again.
C26_NotifiedOnlyWhenMarkerWritten ==
    \A i \in DOMAIN log :
        (log[i].batched \/ log[i].enqueued)
        => /\ log[i].write = "ok"
           /\ \A r \in RowsOf(log[i].link.link_id) :
                 table[r].date = log[i].info.date

\* C27: when a sweep ends (the read of an empty page), every link that was in
\* the store during the whole sweep has been processed exactly once in it,
\* also when other links were deleted between two page reads of the sweep.
\* (No link is added in this configuration, so the links in the store at the
\* end of the sweep were in it all along.)
C27_SweepProcessesEveryLinkOnce ==
    [][(pc = "read" /\ pc' = "sleep")
       => \A r \in DOMAIN table : Count(sweep, table[r].link_id) = 1]_vars

\* C28: no notification is delivered for a link that is no longer in the
\* store at delivery time: when batch_links hands its immediate batches to
\* the senders, every pair in them belongs to a link that is still stored.
C28_NoDeliveryForDeletedLink ==
    pc = "dispatch"
    => \A k \in DOMAIN Flatten(to_send) :
          HasRow(table, Flatten(to_send)[k][1].link_id)

\* C29: whenever a deferred job fires, the snapshot it delivers is the most
\* recent change detected for its link, whatever the chat did to its delivery
\* time while the job was pending. (Every detected change is written in this
\* configuration, so the stored marker is the most recently detected one.)
C29_FiredJobCarriesLatestChange ==
    [][\A id \in DOMAIN cron :
          (id \in DOMAIN cron' /\ cron'[id].count > cron[id].count)
          => \A r \in RowsOf(id) : table[r].date = cron'[id].fired[2].date]_vars

====
